---- MODULE Spec2Model ----
(***************************************************************************)
(* Model of the YouTube transcription pipeline:                            *)
(*   src/src/utils/transcriber.py  WhisperTranscriber                      *)
(*   src/src/utils/downloader.py   YouTubeDownloader                       *)
(*   src/src/ui/main_window.py     TranscriptionWorker, MainWindow         *)
(*                                                                         *)
(* Python strings are sequences of one-character strings, so formatting,   *)
(* splitting and parsing are computed as the code computes them.  Float    *)
(* seconds are held in fixed point, as integer milliseconds.  Progress     *)
(* fractions are exact rationals <<numerator, denominator>> in lowest      *)
(* terms.                                                                  *)
(***************************************************************************)
EXTENDS Integers, Sequences, FiniteSets, TLC

\* ------------------------------------------------------------------ bounds
MaxChunks == 3
MaxHooks == 2
MaxRuns == 2
MaxTitleLen == 2
MaxDuration == 7
MaxSegmentLength == 3
MaxSegments == 2

\* ------------------------------------------------- Python string built-ins
DigitChars == <<"0", "1", "2", "3", "4", "5", "6", "7", "8", "9">>

\* str(n) / f"{n}" for a non-negative int
RECURSIVE IntToStr(_)
IntToStr(n) ==
    IF n < 10 THEN <<DigitChars[n + 1]>>
    ELSE IntToStr(n \div 10) \o <<DigitChars[(n % 10) + 1]>>

IsDigits(s) == Len(s) > 0 /\ \A k \in 1..Len(s) : \E d \in 1..10 : DigitChars[d] = s[k]

DigitVal(c) == (CHOOSE d \in 1..10 : DigitChars[d] = c) - 1

\* int(s) for a string of decimal digits
RECURSIVE StrToInt(_)
StrToInt(s) ==
    IF Len(s) = 0 THEN 0
    ELSE StrToInt(SubSeq(s, 1, Len(s) - 1)) * 10 + DigitVal(s[Len(s)])

\* s.split(sep) for a one-character separator
RECURSIVE Split(_, _)
Split(s, sep) ==
    IF \A k \in 1..Len(s) : s[k] # sep THEN <<s>>
    ELSE LET k == CHOOSE j \in 1..Len(s) :
                      s[j] = sep /\ \A m \in 1..(j - 1) : s[m] # sep
         IN  <<SubSeq(s, 1, k - 1)>> \o Split(SubSeq(s, k + 1, Len(s)), sep)

Whitespace == {" ", "\t", "\n"}

\* s.strip()
RECURSIVE Strip(_)
Strip(s) ==
    IF Len(s) = 0 THEN s
    ELSE IF s[1] \in Whitespace THEN Strip(Tail(s))
    ELSE IF s[Len(s)] \in Whitespace THEN Strip(SubSeq(s, 1, Len(s) - 1))
    ELSE s

\* os.path.join(a, b)
PathJoin(a, b) ==
    IF Len(b) > 0 /\ b[1] = "/" THEN b
    ELSE IF Len(a) = 0 THEN b
    ELSE IF a[Len(a)] = "/" THEN a \o b
    ELSE a \o <<"/">> \o b

\* os.path.dirname(p)
Dirname(p) ==
    IF \A k \in 1..Len(p) : p[k] # "/" THEN <<>>
    ELSE LET k == CHOOSE j \in 1..Len(p) :
                      p[j] = "/" /\ \A m \in (j + 1)..Len(p) : p[m] # "/"
         IN  IF k = 1 THEN <<"/">> ELSE SubSeq(p, 1, k - 1)

\* range(start, stop, step)
RECURSIVE Range(_, _, _)
Range(start, stop, step) ==
    IF start >= stop THEN <<>>
    ELSE <<start>> \o Range(start + step, stop, step)

Min(a, b) == IF a <= b THEN a ELSE b

\* ------------------------------------------------------ progress fractions
RECURSIVE GCD(_, _)
GCD(a, b) == IF b = 0 THEN a ELSE GCD(b, a % b)

Frac(n, d) == LET g == GCD(n, d) IN <<n \div g, d \div g>>
FracMul(x, y) == Frac(x[1] * y[1], x[2] * y[2])
FracAdd(x, y) == Frac(x[1] * y[2] + y[1] * x[2], x[2] * y[2])
FracLeq(x, y) == x[1] * y[2] <= y[1] * x[2]
FracLt(x, y) == x[1] * y[2] < y[1] * x[2]

\* --------------------------------------------------------- transcriber.py
segment_length_ms == 10 * 60 * 1000

segments_name == <<"s", "e", "g", "m", "e", "n", "t", "s">>

\* f"segment_{i}_{end}.mp3"
SegmentFileName(i, end) ==
    <<"s", "e", "g", "m", "e", "n", "t", "_">> \o IntToStr(i) \o <<"_">>
        \o IntToStr(end) \o <<".", "m", "p", "3">>

\* variant: the last slice is not truncated to the audio's length
SegmentSlicesNoMin(total, seglen) ==
    LET starts == Range(0, total, seglen)
    IN  [k \in 1..Len(starts) |->
            [start |-> starts[k], end |-> starts[k] + seglen]]

\* the slices audio[i:end] cut by the loop of _segment_audio
SegmentSlices(total, seglen) ==
    LET starts == Range(0, total, seglen)
    IN  [k \in 1..Len(starts) |->
            [start |-> starts[k], end |-> Min(starts[k] + seglen, total)]]

SegmentsDir(path) == PathJoin(Dirname(path), segments_name)

\* _segment_audio: the list of paths it returns
_segment_audio(path, total, seglen) ==
    IF total <= seglen THEN <<path>>
    ELSE LET slices == SegmentSlices(total, seglen)
         IN  [k \in 1..Len(slices) |->
                 PathJoin(SegmentsDir(path),
                          SegmentFileName(slices[k].start, slices[k].end))]

\* the audio each returned path holds, as an interval of the source
ChunksOf(total, seglen) ==
    IF total <= seglen THEN <<[start |-> 0, end |-> total]>>
    ELSE SegmentSlices(total, seglen)

\* segment_paths[i-1].split("_")[2].split(".")[0]  (i is the 0-based index)
SegmentMs(paths, i) == Split(Split(paths[i], "_")[3], ".")[1]

\* variant: the offset read from the start field of the previous chunk's name
OffsetFromStart(paths, i) == StrToInt(Split(paths[i], "_")[2])

\* offset = int(segment_ms) / 1000: seconds, held here as milliseconds
Offset(paths, i) == StrToInt(SegmentMs(paths, i))

\* the loop body's adjustment of one model result's segments
ShiftSegments(segs, paths, i) ==
    [k \in 1..Len(segs) |->
        IF i > 0
        THEN [segs[k] EXCEPT !.start = @ + Offset(paths, i),
                             !.end = @ + Offset(paths, i)]
        ELSE segs[k]]

\* f"{n:02d}"
Pad2(n) == IF n < 10 THEN <<"0">> \o IntToStr(n) ELSE IntToStr(n)

\* variant: the minutes are not reduced modulo the hour
_format_time_total_minutes(ms) ==
    LET hours == ms \div 3600000
        minutes == ms \div 60000
        seconds == (ms % 60000) \div 1000
    IN  Pad2(hours) \o <<":">> \o Pad2(minutes) \o <<":">> \o Pad2(seconds)

\* _format_time, on seconds held as milliseconds
_format_time(ms) ==
    LET hours == ms \div 3600000
        minutes == (ms % 3600000) \div 60000
        seconds == (ms % 60000) \div 1000
    IN  Pad2(hours) \o <<":">> \o Pad2(minutes) \o <<":">> \o Pad2(seconds)

RECURSIVE format_with_timestamps(_)
format_with_timestamps(segs) ==
    IF Len(segs) = 0 THEN <<>>
    ELSE <<"[">> \o _format_time(segs[1].start) \o <<" ", "-", "-", ">", " ">>
         \o _format_time(segs[1].end) \o <<"]", " ">> \o segs[1].text
         \o <<"\n">> \o format_with_timestamps(Tail(segs))

\* what self.model.transcribe(segment_path) may return
ModelResults ==
    { [text |-> <<" ", "a">>,
       segments |-> <<[start |-> 0, end |-> 5300, text |-> <<" ", "a">>]>>],
      [text |-> <<"b", " ", "c", "\n">>,
       segments |-> <<[start |-> 5000, end |-> 8000, text |-> <<"b">>],
                      [start |-> 8000, end |-> 600000, text |-> <<" ", "c", "\n">>]>>],
      [text |-> <<>>, segments |-> <<>>] }

\* ---------------------------------------------------------- downloader.py
temp_dir == <<"t", "e", "m", "p">>

VideoIds == { <<"a", "_", "b">> }

\* os.path.join(self.temp_dir, f"{video_id}.mp3")
OutputFile(video_id) == PathJoin(temp_dir, video_id \o <<".", "m", "p", "3">>)

\* d['_percent_str'] values the hook may receive from the download library
PercentStrs ==
    { <<" ", "5", "0", ".", "0", "%">>,
      <<"1", "0", "0", "%">>,
      <<"N", "/", "A", "%">> }

\* s.replace(c, '')
Remove(s, c) == SelectSeq(s, LAMBDA x : x # c)

RECURSIVE Pow10(_)
Pow10(n) == IF n = 0 THEN 1 ELSE 10 * Pow10(n - 1)

\* whether float(s) accepts s (decimal digits with an optional point)
IsFloat(s) ==
    LET parts == Split(s, ".")
    IN  \/ Len(parts) = 1 /\ IsDigits(parts[1])
        \/ /\ Len(parts) = 2
           /\ Len(parts[1]) + Len(parts[2]) > 0
           /\ \A k \in 1..2 : Len(parts[k]) = 0 \/ IsDigits(parts[k])

\* float(s)
StrToFloat(s) ==
    LET parts == Split(s, ".")
    IN  IF Len(parts) = 1 THEN Frac(StrToInt(parts[1]), 1)
        ELSE FracAdd(Frac(StrToInt(parts[1]), 1),
                     Frac(StrToInt(parts[2]), Pow10(Len(parts[2]))))

\* progress_hook: percent = d.get('_percent_str').strip();
\* float(percent.replace('%', '')) / 100, and 0 when float() raises
PercentFloat(percent_str) ==
    LET percent == Remove(Strip(percent_str), "%")
    IN  IF IsFloat(percent) THEN FracMul(StrToFloat(percent), Frac(1, 100))
        ELSE Frac(0, 1)

\* --------------------------------------------------------- main_window.py
AlnumChars ==
    {"a", "b", "c", "d", "e", "f", "g", "h", "i", "j", "k", "l", "m", "n",
     "o", "p", "q", "r", "s", "t", "u", "v", "w", "x", "y", "z",
     "A", "B", "C", "D", "E", "F", "G", "H", "I", "J", "K", "L", "M", "N",
     "O", "P", "Q", "R", "S", "T", "U", "V", "W", "X", "Y", "Z",
     "0", "1", "2", "3", "4", "5", "6", "7", "8", "9"}

\* variant: the hyphen is not among the characters kept
SafeCharNoHyphen(c) == IF c \in AlnumChars \/ c \in {" ", "_"} THEN c ELSE "_"

\* c if c.isalnum() or c in " -_" else "_"
SafeChar(c) == IF c \in AlnumChars \/ c \in {" ", "-", "_"} THEN c ELSE "_"

\* "".join(... for c in video_title)
safe_title(title) == [k \in 1..Len(title) |-> SafeChar(title[k])]

\* os.path.join(self.output_dir, f"{safe_title}.txt")
output_path(output_dir, title) ==
    PathJoin(output_dir, safe_title(title) \o <<".", "t", "x", "t">>)

\* variant: the download is given half of the scale
DownloadScaleHalf(p) == FracMul(p, Frac(5, 10))

\* the lambdas handed to the downloader and the transcriber
DownloadScale(p) == FracMul(p, Frac(4, 10))
TranscribeScale(p) == FracAdd(Frac(4, 10), FracMul(p, Frac(6, 10)))

\* info.get('title') is None when the metadata has no title
NoTitle == <<"None">>
ExampleTitle == <<"M", "y", ":", " ", "V", "i", "d", "e", "o", "?", " ", "#", "1">>
VideoTitles == {NoTitle, ExampleTitle, <<"a", "/", "-", "_">>}

output_dir == <<"o", "u", "t">>

\* ------------------------------------------------------------------- state
VARIABLES
    transcribe_button,   \* MainWindow: the Transcribe control is enabled
    signals,             \* terminal signals emitted and not yet handled by the window
    runs,                \* workers started so far
    pc,                  \* position of TranscriptionWorker.run
    include_timestamps,  \* self.include_timestamps
    video_title,         \* run: video_title
    audio_path,          \* run: audio_path
    total_length_ms,     \* len(audio) of the downloaded file
    segment_paths,       \* transcribe: segment_paths
    i,                   \* transcribe: loop index (0-based)
    full_text,           \* transcribe: full_text
    segments_info,       \* transcribe: segments_info
    transcription,       \* run: transcription
    hooks,               \* 'downloading' hook calls of this download
    files,               \* files under temp_dir
    dirs,                \* directories under temp_dir
    output_file,         \* the file this run wrote
    result,              \* what transcribe returned to run
    progress_updated,    \* the two latest emissions of progress_updated in this run
    events,              \* completed / error emissions of this run
    trace,               \* stages this run has entered
    results,             \* what the model returned for each chunk of this run
    removed,             \* files the transcriber removed in this run
    cleaned,             \* "no", or how the transcriber's clean-up ended
    arg,                 \* input of a function applied on its own
    ret                  \* its result

runVars ==
    <<include_timestamps, video_title, audio_path, total_length_ms,
      segment_paths, i, full_text, segments_info, transcription, hooks,
      output_file, result, progress_updated, events, trace, results, removed, cleaned>>

runVarsButEvents ==
    <<include_timestamps, video_title, audio_path, total_length_ms,
      segment_paths, i, full_text, segments_info, transcription, hooks,
      output_file, result, progress_updated, results, removed, cleaned>>

appVars == <<transcribe_button, signals, runs, pc, files, dirs>>

fnVars == <<arg, ret>>

vars == <<appVars, runVars, fnVars>>

NoFile == [path |-> <<>>, content |-> <<>>]
NoResult == [type |-> "none", text |-> <<>>, segments |-> <<>>]
NoArg == [fn |-> "none", total_length_ms |-> 0, segment_length_ms |-> 0, video_title |-> <<>>,
          segments |-> <<>>]
NoRet == [fn |-> "none", segment_paths |-> <<>>, chunks |-> <<>>, output_path |-> <<>>,
          text |-> <<>>]

InitApp ==
    /\ transcribe_button = TRUE
    /\ signals = <<>>
    /\ runs = 0
    /\ pc = "idle"
    /\ include_timestamps = FALSE
    /\ video_title = <<>>
    /\ audio_path = <<>>
    /\ total_length_ms = 0
    /\ segment_paths = <<>>
    /\ i = 0
    /\ full_text = <<>>
    /\ segments_info = <<>>
    /\ transcription = <<>>
    /\ hooks = 0
    /\ files = {}
    /\ dirs = {}
    /\ output_file = NoFile
    /\ result = NoResult
    /\ progress_updated = <<>>
    /\ events = <<>>
    /\ trace = <<>>
    /\ results = <<>>
    /\ removed = {}
    /\ cleaned = "no"

Init == InitApp /\ arg = NoArg /\ ret = NoRet

\* self.progress_updated.emit(fraction, msg), issued in the given stage
Emit(fraction, stage) ==
    LET all == Append(progress_updated, [fraction |-> fraction, stage |-> stage])
    IN  progress_updated' =
            IF Len(all) > 2 THEN SubSeq(all, Len(all) - 1, Len(all)) ELSE all

\* self.error.emit(message); return
EmitError(message) ==
    /\ events' = Append(events, [signal |-> "error", message |-> message,
                                  output_path |-> <<>>])
    /\ signals' = Append(signals, "error")
    /\ trace' = Append(trace, "Errored")
    /\ pc' = "returned"

\* audio lengths a download may have: for each chunk count up to MaxChunks,
\* the shortest and the longest audio that is cut into that many chunks
AudioLengths ==
    UNION { {(c - 1) * segment_length_ms + 1, c * segment_length_ms} : c \in 1..MaxChunks }

\* ------------------------------------------------ MainWindow (main thread)
\* start_transcription: the click is possible only while the control is
\* enabled; with an empty URL or an output directory that cannot be created
\* the handler returns at once, otherwise the control is disabled and a fresh
\* worker is created and started
start_transcription(can_start, timestamps) ==
    /\ transcribe_button
    /\ runs < MaxRuns
    /\ can_start
    /\ transcribe_button' = FALSE
    /\ runs' = runs + 1
    /\ pc' = "validate_url"
    /\ include_timestamps' = timestamps
    /\ video_title' = <<>>
    /\ audio_path' = <<>>
    /\ total_length_ms' = 0
    /\ segment_paths' = <<>>
    /\ i' = 0
    /\ full_text' = <<>>
    /\ segments_info' = <<>>
    /\ transcription' = <<>>
    /\ hooks' = 0
    /\ output_file' = NoFile
    /\ result' = NoResult
    /\ progress_updated' = <<>>
    /\ events' = <<>>
    /\ trace' = <<"Validating">>
    /\ results' = <<>>
    /\ removed' = {}
    /\ cleaned' = "no"
    /\ UNCHANGED <<signals, files, dirs, fnVars>>

transcription_completed ==
    /\ Len(signals) > 0
    /\ Head(signals) = "completed"
    /\ signals' = Tail(signals)
    /\ transcribe_button' = TRUE
    /\ UNCHANGED <<runs, pc, files, dirs, runVars, fnVars>>

\* variant: the error handler leaves the control disabled
transcription_error_no_enable ==
    /\ Len(signals) > 0
    /\ Head(signals) = "error"
    /\ signals' = Tail(signals)
    /\ UNCHANGED <<transcribe_button, runs, pc, files, dirs, runVars, fnVars>>

transcription_error ==
    /\ Len(signals) > 0
    /\ Head(signals) = "error"
    /\ signals' = Tail(signals)
    /\ transcribe_button' = TRUE
    /\ UNCHANGED <<runs, pc, files, dirs, runVars, fnVars>>

\* ------------------------------------- TranscriptionWorker.run (worker thread)
\* if not self.downloader.validate_url(self.url)
ValidateUrl(valid) ==
    /\ pc = "validate_url"
    /\ IF valid
       THEN /\ pc' = "get_video_info"
            /\ UNCHANGED <<events, signals, trace>>
       ELSE EmitError("Invalid YouTube URL")
    /\ UNCHANGED <<transcribe_button, runs, files, dirs, fnVars,
                   include_timestamps, video_title, audio_path, total_length_ms,
                   segment_paths, i, full_text, segments_info, transcription,
                   hooks, output_file, result, progress_updated, results,
                   removed, cleaned>>

\* video_info = get_video_info(url); then progress_updated.emit(0.0, ...)
GetVideoInfo(ok, title) ==
    /\ pc = "get_video_info"
    /\ IF ok
       THEN /\ video_title' = title
            /\ Emit(Frac(0, 1), "Downloading")
            /\ trace' = Append(trace, "Downloading")
            /\ pc' = "download_audio"
            /\ UNCHANGED <<events, signals>>
       ELSE /\ EmitError("Error fetching video info")
            /\ UNCHANGED <<video_title, progress_updated>>
    /\ UNCHANGED <<transcribe_button, runs, files, dirs, fnVars,
                   include_timestamps, audio_path, total_length_ms,
                   segment_paths, i, full_text, segments_info, transcription,
                   hooks, output_file, result, results, removed, cleaned>>

\* progress_hook with d['status'] == 'downloading'
DownloadProgressHook(percent_str) ==
    /\ pc = "download_audio"
    /\ hooks < MaxHooks
    /\ hooks' = hooks + 1
    /\ Emit(DownloadScale(PercentFloat(percent_str)), "Downloading")
    /\ UNCHANGED <<appVars, fnVars, include_timestamps, video_title, audio_path,
                   total_length_ms, segment_paths, i, full_text, segments_info,
                   transcription, output_file, result, events, trace, results,
                   removed, cleaned>>

\* progress_hook with d['status'] == 'finished'
DownloadFinishedHook ==
    /\ pc = "download_audio"
    /\ Emit(DownloadScale(Frac(1, 1)), "Downloading")
    /\ pc' = "postprocess"
    /\ UNCHANGED <<transcribe_button, signals, runs, files, dirs, fnVars,
                   include_timestamps, video_title, audio_path,
                   total_length_ms, segment_paths, i, full_text, segments_info,
                   transcription, hooks, output_file, result, events, trace,
                   results, removed, cleaned>>

\* download_audio returns output_file; then progress_updated.emit(0.4, ...)
DownloadReturn(video_id, length) ==
    /\ pc = "postprocess"
    /\ audio_path' = OutputFile(video_id)
    /\ files' = files \cup {OutputFile(video_id)}
    /\ total_length_ms' = length
    /\ Emit(Frac(4, 10), "Transcribing")
    /\ trace' = Append(trace, "Transcribing")
    /\ pc' = "segment_audio"
    /\ UNCHANGED <<transcribe_button, signals, runs, dirs, fnVars,
                   include_timestamps, video_title, segment_paths, i, full_text,
                   segments_info, transcription, hooks, output_file, result,
                   events, results, removed, cleaned>>

\* variant: the handler of a download failure does not return
DownloadFailNoReturn ==
    /\ pc \in {"download_audio", "postprocess"}
    /\ events' = Append(events, [signal |-> "error", message |-> "Error downloading video",
                                  output_path |-> <<>>])
    /\ signals' = Append(signals, "error")
    /\ trace' = Append(trace, "Errored")
    /\ pc' = "segment_audio"
    /\ UNCHANGED <<transcribe_button, runs, files, dirs, fnVars,
                   include_timestamps, video_title, audio_path, total_length_ms,
                   segment_paths, i, full_text, segments_info, transcription,
                   hooks, output_file, result, progress_updated, results,
                   removed, cleaned>>

\* download_audio raises
DownloadFail ==
    /\ pc \in {"download_audio", "postprocess"}
    /\ EmitError("Error downloading video")
    /\ UNCHANGED <<transcribe_button, runs, files, dirs, fnVars,
                   include_timestamps, video_title, audio_path, total_length_ms,
                   segment_paths, i, full_text, segments_info, transcription,
                   hooks, output_file, result, progress_updated, results,
                   removed, cleaned>>

\* ---------------------------------- WhisperTranscriber.transcribe, from run
\* self._load_model(); segment_paths = self._segment_audio(audio_path)
SegmentAudio(ok) ==
    /\ pc = "segment_audio"
    /\ IF ok
       THEN LET paths == _segment_audio(audio_path, total_length_ms, segment_length_ms)
            IN  /\ segment_paths' = paths
                /\ IF total_length_ms <= segment_length_ms
                   THEN UNCHANGED <<files, dirs>>
                   ELSE /\ dirs' = dirs \cup {SegmentsDir(audio_path)}
                        /\ files' = files \cup {paths[k] : k \in 1..Len(paths)}
                /\ pc' = "transcribe_loop"
                /\ UNCHANGED <<events, signals, trace>>
       ELSE /\ EmitError("Error during transcription")
            /\ UNCHANGED <<segment_paths, files, dirs>>
    /\ UNCHANGED <<transcribe_button, runs, fnVars, include_timestamps,
                   video_title, audio_path, total_length_ms, i, full_text,
                   segments_info, transcription, hooks, output_file, result,
                   progress_updated, results, removed, cleaned>>

\* variant: the texts are concatenated without the separating space
AddTextNoSpace(text_so_far, text) == text_so_far \o text

\* full_text += result["text"] + " "
AddText(text_so_far, text) == text_so_far \o text \o <<" ">>

\* variant: a failed model call is reported and the loop goes on to the
\* next chunk
TranscribeChunkSwallow(ok, model_result) ==
    /\ pc = "transcribe_loop"
    /\ i < Len(segment_paths)
    /\ Emit(TranscribeScale(Frac(i, Len(segment_paths))), "Transcribing")
    /\ i' = i + 1
    /\ IF ok
       THEN /\ full_text' = AddText(full_text, model_result.text)
            /\ segments_info' =
                   IF include_timestamps
                   THEN segments_info \o ShiftSegments(model_result.segments, segment_paths, i)
                   ELSE segments_info
            /\ results' = Append(results, model_result)
            /\ UNCHANGED <<events, signals>>
       ELSE /\ events' = Append(events, [signal |-> "error",
                                         message |-> "Error during transcription",
                                         output_path |-> <<>>])
            /\ signals' = Append(signals, "error")
            /\ results' = Append(results, [text |-> <<>>, segments |-> <<>>])
            /\ UNCHANGED <<full_text, segments_info>>
    /\ UNCHANGED <<transcribe_button, runs, files, dirs, fnVars, pc, trace,
                   include_timestamps, video_title, audio_path, total_length_ms,
                   segment_paths, transcription, hooks, output_file, result,
                   removed, cleaned>>

\* variant: a failed model call is reported and the loop is left with the
\* text of the chunks processed so far
TranscribeChunkPartial(ok, model_result) ==
    /\ pc = "transcribe_loop"
    /\ i < Len(segment_paths)
    /\ Emit(TranscribeScale(Frac(i, Len(segment_paths))), "Transcribing")
    /\ IF ok
       THEN /\ full_text' = AddText(full_text, model_result.text)
            /\ segments_info' =
                   IF include_timestamps
                   THEN segments_info \o ShiftSegments(model_result.segments, segment_paths, i)
                   ELSE segments_info
            /\ results' = Append(results, model_result)
            /\ i' = i + 1
            /\ UNCHANGED <<events, signals, trace, pc, result, transcription>>
       ELSE /\ events' = Append(events, [signal |-> "error",
                                         message |-> "Error during transcription",
                                         output_path |-> <<>>])
            /\ signals' = Append(signals, "error")
            /\ result' = [type |-> "str", text |-> Strip(full_text), segments |-> <<>>]
            /\ transcription' = Strip(full_text)
            /\ trace' = Append(trace, "Writing")
            /\ pc' = "save_output"
            /\ UNCHANGED <<full_text, segments_info, results, i>>
    /\ UNCHANGED <<transcribe_button, runs, files, dirs, fnVars,
                   include_timestamps, video_title, audio_path, total_length_ms,
                   segment_paths, hooks, output_file, removed, cleaned>>

\* one iteration of the loop: the progress report, the model call, and the
\* accumulation of its result; the model call may raise
TranscribeChunk(ok, model_result) ==
    /\ pc = "transcribe_loop"
    /\ i < Len(segment_paths)
    /\ Emit(TranscribeScale(Frac(i, Len(segment_paths))), "Transcribing")
    /\ IF ok
       THEN /\ full_text' = AddText(full_text, model_result.text)
            /\ segments_info' =
                   IF include_timestamps
                   THEN segments_info \o ShiftSegments(model_result.segments, segment_paths, i)
                   ELSE segments_info
            /\ results' = Append(results, model_result)
            /\ i' = i + 1
            /\ UNCHANGED <<events, signals, trace, pc>>
       ELSE /\ EmitError("Error during transcription")
            /\ UNCHANGED <<full_text, segments_info, results, i>>
    /\ UNCHANGED <<transcribe_button, runs, files, dirs, fnVars,
                   include_timestamps, video_title, audio_path, total_length_ms,
                   segment_paths, transcription, hooks, output_file, result,
                   removed, cleaned>>

\* the value transcribe returns
TranscribeResult(timestamps, text, segs) ==
    IF timestamps
    THEN [type |-> "dict", text |-> Strip(text), segments |-> segs]
    ELSE [type |-> "str", text |-> Strip(text), segments |-> <<>>]

\* the files the clean-up loop removes
CleanupRemoves(paths, audio, existing) ==
    IF Len(paths) > 1
    THEN {paths[k] : k \in 1..Len(paths)} \cap {f \in existing : f # audio}
    ELSE {}

\* after the loop: the 1.0 report, the clean-up (os.rmdir raises when the
\* directory is not empty), the return to run and, with timestamps,
\* format_with_timestamps
TranscribeFinish ==
    /\ pc = "transcribe_loop"
    /\ i = Len(segment_paths)
    /\ Emit(TranscribeScale(Frac(1, 1)), "Transcribing")
    /\ LET gone == CleanupRemoves(segment_paths, audio_path, files)
           segments_dir == Dirname(segment_paths[1])
           rmdir_fails == /\ Len(segment_paths) > 1
                          /\ \E f \in files \ gone : Dirname(f) = segments_dir
           value == TranscribeResult(include_timestamps, full_text, segments_info)
       IN  /\ files' = files \ gone
           /\ removed' = gone
           /\ IF rmdir_fails
              THEN /\ cleaned' = "rmdir raised"
                   /\ EmitError("Error during transcription")
                   /\ UNCHANGED <<dirs, result, transcription>>
              ELSE /\ cleaned' = IF Len(segment_paths) > 1 THEN "done" ELSE "nothing to do"
                   /\ dirs' = IF Len(segment_paths) > 1 THEN dirs \ {segments_dir} ELSE dirs
                   /\ result' = value
                   /\ transcription' =
                          IF include_timestamps
                          THEN format_with_timestamps(value.segments)
                          ELSE value.text
                   /\ trace' = Append(trace, "Writing")
                   /\ pc' = "save_output"
                   /\ UNCHANGED <<events, signals>>
    /\ UNCHANGED <<transcribe_button, runs, fnVars, include_timestamps,
                   video_title, audio_path, total_length_ms, segment_paths, i,
                   full_text, segments_info, hooks, output_file, results>>

\* ------------------------------------------------------- run: save and end
\* safe_title = ...; open(output_path, 'w'); f.write(transcription).
\* Iterating a None title raises, as may open(); both reach the outer except
SaveOutput(ok) ==
    /\ pc = "save_output"
    /\ IF ok /\ video_title # NoTitle
       THEN /\ output_file' = [path |-> output_path(output_dir, video_title),
                               content |-> transcription]
            /\ pc' = "cleanup"
            /\ UNCHANGED <<events, signals, trace>>
       ELSE /\ EmitError("Unexpected error")
            /\ UNCHANGED output_file
    /\ UNCHANGED <<transcribe_button, runs, files, dirs, fnVars,
                   include_timestamps, video_title, audio_path, total_length_ms,
                   segment_paths, i, full_text, segments_info, transcription,
                   hooks, result, progress_updated, results, removed, cleaned>>

\* self.downloader.cleanup() (shutil.rmtree of temp_dir), then completed.emit
DownloaderCleanup(ok) ==
    /\ pc = "cleanup"
    /\ IF ok
       THEN /\ files' = {}
            /\ dirs' = {}
            /\ events' = Append(events, [signal |-> "completed", message |-> "",
                                         output_path |-> output_file.path])
            /\ signals' = Append(signals, "completed")
            /\ trace' = Append(trace, "Done")
            /\ pc' = "returned"
       ELSE /\ EmitError("Unexpected error")
            /\ UNCHANGED <<files, dirs>>
    /\ UNCHANGED <<transcribe_button, runs, fnVars, runVarsButEvents>>

\* ------------------------------------------------------------ specification
Next ==
    \/ \E can_start \in BOOLEAN, timestamps \in BOOLEAN :
           start_transcription(can_start, timestamps)
    \/ transcription_completed
    \/ transcription_error
    \/ \E valid \in BOOLEAN : ValidateUrl(valid)
    \/ \E ok \in BOOLEAN, title \in VideoTitles : GetVideoInfo(ok, title)
    \/ \E percent_str \in PercentStrs : DownloadProgressHook(percent_str)
    \/ DownloadFinishedHook
    \/ \E video_id \in VideoIds, length \in AudioLengths : DownloadReturn(video_id, length)
    \/ DownloadFail
    \/ \E ok \in BOOLEAN : SegmentAudio(ok)
    \/ \E ok \in BOOLEAN, model_result \in ModelResults : TranscribeChunk(ok, model_result)
    \/ TranscribeFinish
    \/ \E ok \in BOOLEAN : SaveOutput(ok)
    \/ \E ok \in BOOLEAN : DownloaderCleanup(ok)

Spec == Init /\ [][Next]_vars

\* ------------------------------------------- the functions on their own
TitleChars == {"a", "Z", "7", " ", "-", "_", ":", "?", "#", "/", "."}

Titles == UNION { [1..n -> TitleChars] : n \in 0..MaxTitleLen }

SegmentArgs ==
    { [fn |-> "_segment_audio", total_length_ms |-> d, segment_length_ms |-> l,
       video_title |-> <<>>, segments |-> <<>>] :
          d \in 0..MaxDuration, l \in 1..MaxSegmentLength }

TitleArgs ==
    { [fn |-> "safe_title", total_length_ms |-> 0, segment_length_ms |-> 0,
       video_title |-> t, segments |-> <<>>] : t \in Titles \cup {ExampleTitle} }

\* segment times (seconds, held as milliseconds) around the minute and hour
\* boundaries, with and without a sub-second part
FormatTimes == {0, 59999, 3599999, 3665700, 3670200, 360000000}

FormatTexts == { <<"h", "e", "l", "l", "o">>, <<>> }

FormatSegments ==
    { [start |-> a, end |-> b, text |-> t] :
          a \in FormatTimes, b \in FormatTimes, t \in FormatTexts }

FormatArgs ==
    { [fn |-> "format_with_timestamps", total_length_ms |-> 0, segment_length_ms |-> 0,
       video_title |-> <<>>, segments |-> segs] :
          segs \in UNION { [1..n -> {seg \in FormatSegments : seg.start <= seg.end}] :
                               n \in 0..MaxSegments } }

InitFunctions ==
    InitApp /\ arg \in SegmentArgs \cup TitleArgs \cup FormatArgs /\ ret = NoRet

\* _segment_audio(audio_path, segment_length_ms) on an audio of the given length
CallSegmentAudio(video_id) ==
    /\ arg.fn = "_segment_audio"
    /\ ret.fn = "none"
    /\ ret' = [fn |-> "_segment_audio",
               segment_paths |-> _segment_audio(OutputFile(video_id),
                                    arg.total_length_ms, arg.segment_length_ms),
               chunks |-> ChunksOf(arg.total_length_ms, arg.segment_length_ms),
               output_path |-> <<>>, text |-> <<>>]
    /\ UNCHANGED <<arg, appVars, runVars>>

\* the output path run derives from a title
CallSafeTitle ==
    /\ arg.fn = "safe_title"
    /\ ret.fn = "none"
    /\ ret' = [fn |-> "safe_title", segment_paths |-> <<>>, chunks |-> <<>>,
               output_path |-> output_path(output_dir, arg.video_title),
               text |-> <<>>]
    /\ UNCHANGED <<arg, appVars, runVars>>

\* format_with_timestamps(result) on a result with the given segments
CallFormatWithTimestamps ==
    /\ arg.fn = "format_with_timestamps"
    /\ ret.fn = "none"
    /\ ret' = [fn |-> "format_with_timestamps", segment_paths |-> <<>>,
               chunks |-> <<>>, output_path |-> <<>>,
               text |-> format_with_timestamps(arg.segments)]
    /\ UNCHANGED <<arg, appVars, runVars>>

NextFunctions ==
    \/ \E video_id \in VideoIds : CallSegmentAudio(video_id)
    \/ CallSafeTitle
    \/ CallFormatWithTimestamps

SpecFunctions == InitFunctions /\ [][NextFunctions]_vars

\* ================================================================== claims
\* offset_k: the sum of the durations of the chunks before chunk k (1-based)
RECURSIVE SumDurations(_, _)
SumDurations(chunks, k) ==
    IF k = 0 THEN 0
    ELSE SumDurations(chunks, k - 1) + (chunks[k].end - chunks[k].start)

ShiftBy(segs, offset) ==
    [k \in 1..Len(segs) |->
        [start |-> segs[k].start + offset, end |-> segs[k].end + offset,
         text |-> segs[k].text]]

\* the model's segments of chunks 1..n, each shifted by its chunk's offset
RECURSIVE ExposedSegments(_, _, _)
ExposedSegments(res, chunks, n) ==
    IF n = 0 THEN <<>>
    ELSE ExposedSegments(res, chunks, n - 1)
         \o ShiftBy(res[n].segments, SumDurations(chunks, n - 1))

\* for each exposed segment, the chunk it came from
RECURSIVE ChunkOfSegment(_, _)
ChunkOfSegment(res, n) ==
    IF n = 0 THEN <<>>
    ELSE ChunkOfSegment(res, n - 1) \o [k \in 1..Len(res[n].segments) |-> n]

RECURSIVE RawSegments(_, _)
RawSegments(res, n) ==
    IF n = 0 THEN <<>> ELSE RawSegments(res, n - 1) \o res[n].segments

\* C1: with timestamps requested, the segments exposed so far are the model's
\* segments of the processed chunks, in chunk order, each shifted by the sum
\* of the durations of the earlier chunks; a model-local segment within
\* [0, dur_i] ends up within [offset_i, offset_i + dur_i].
C1_OffsetShift ==
    (include_timestamps /\ Len(segment_paths) > 0) =>
        LET chunks == ChunksOf(total_length_ms, segment_length_ms)
            n == Len(results)
            owner == ChunkOfSegment(results, n)
            raw == RawSegments(results, n)
        IN  /\ segments_info = ExposedSegments(results, chunks, n)
            /\ \A k \in 1..Len(segments_info) :
                   LET c == owner[k]
                       dur == chunks[c].end - chunks[c].start
                       offset == chunks[c].start
                   IN  (0 <= raw[k].start /\ raw[k].start <= raw[k].end /\ raw[k].end <= dur)
                       => /\ offset <= segments_info[k].start
                          /\ segments_info[k].start <= segments_info[k].end
                          /\ segments_info[k].end <= offset + dur

C1_Witness ==
    /\ include_timestamps
    /\ pc = "save_output"
    /\ Len(segment_paths) = 3
    /\ \E k \in 1..Len(segments_info) :
           /\ segments_info[k].start = 2 * segment_length_ms + 5000
           /\ segments_info[k].end = 2 * segment_length_ms + 8000

\* C2: the fractions emitted in a run are within [0, 1] and non-decreasing,
\* and a run that ends with completed has emitted 1.0 last.
C2_ProgressMonotone ==
    /\ \A k \in 1..Len(progress_updated) :
           /\ FracLeq(Frac(0, 1), progress_updated[k].fraction)
           /\ FracLeq(progress_updated[k].fraction, Frac(1, 1))
    /\ Len(progress_updated) = 2 =>
           FracLeq(progress_updated[1].fraction, progress_updated[2].fraction)
    /\ (\E k \in 1..Len(events) : events[k].signal = "completed") =>
           /\ Len(progress_updated) > 0
           /\ progress_updated[Len(progress_updated)].fraction = Frac(1, 1)

\* C3: a run emits at most one terminal event, a run that has returned has
\* emitted exactly one, nothing of the run executes after it, and a failure
\* ends the run: no stage follows Errored and no stage is entered twice.
C3_OneTerminalEvent ==
    /\ Len(events) <= 1
    /\ (pc = "returned") <=> (Len(events) = 1)
    /\ \A k \in 1..Len(trace) : trace[k] = "Errored" => k = Len(trace)
    /\ \A j, k \in 1..Len(trace) : trace[j] = trace[k] => j = k
    /\ (Len(events) = 1 /\ events[1].signal = "error") =>
           trace[Len(trace)] = "Errored"
    /\ (Len(events) = 1 /\ events[1].signal = "completed") =>
           trace[Len(trace)] = "Done"

C3_Witness ==
    /\ pc = "returned"
    /\ Len(events) = 1
    /\ events[1].signal = "error"
    /\ events[1].message = "Error during transcription"
    /\ i = 1
    /\ Len(segment_paths) = 3

\* the model invocation raised on chunk i of the run
ModelFailed ==
    /\ Len(segment_paths) > 0
    /\ i < Len(segment_paths)
    /\ Len(events) > 0

\* C4: when the model invocation fails on a chunk, the run ends with a single
\* transcription error, transcribe returns nothing for the chunks already
\* processed, and the run writes no transcript file.
C4_AbortOnChunkFailure ==
    ModelFailed =>
        /\ Len(events) = 1
        /\ events[1].signal = "error"
        /\ events[1].message = "Error during transcription"
        /\ pc = "returned"
        /\ result = NoResult
        /\ transcription = <<>>
        /\ output_file = NoFile

C4_Witness ==
    /\ ModelFailed
    /\ i = 1
    /\ Len(segment_paths) = 3
    /\ Len(full_text) > 0
    /\ output_file = NoFile

StageOrder == <<"Validating", "Downloading", "Transcribing", "Writing", "Done">>

\* C5: the stages a run has entered are an initial part of Validating,
\* Downloading, Transcribing, Writing, Done, possibly ended by Errored, which
\* is final; the download has returned before transcription starts, transcribe
\* has returned before the file is written, and the file is written before
\* completed is emitted.
C5_StageOrder ==
    /\ \/ /\ Len(trace) <= Len(StageOrder)
          /\ trace = SubSeq(StageOrder, 1, Len(trace))
       \/ /\ Len(trace) >= 2
          /\ Len(trace) <= Len(StageOrder)
          /\ trace[Len(trace)] = "Errored"
          /\ SubSeq(trace, 1, Len(trace) - 1) = SubSeq(StageOrder, 1, Len(trace) - 1)
    /\ (Len(trace) > 0 /\ trace[Len(trace)] = "Errored") => pc = "returned"
    /\ pc \in {"download_audio", "postprocess"} => trace = SubSeq(StageOrder, 1, 2)
    /\ pc \in {"segment_audio", "transcribe_loop"} =>
           /\ trace = SubSeq(StageOrder, 1, 3)
           /\ Len(audio_path) > 0
    /\ Len(segment_paths) > 0 => Len(audio_path) > 0
    /\ output_file # NoFile =>
           /\ result # NoResult
           /\ SubSeq(trace, 1, 4) = SubSeq(StageOrder, 1, 4)
    /\ (\E k \in 1..Len(events) : events[k].signal = "completed") =>
           /\ output_file # NoFile
           /\ trace = StageOrder

\* a run that failed in the Writing stage, after the file was written
C5_Witness ==
    /\ trace = <<"Validating", "Downloading", "Transcribing", "Writing", "Errored">>
    /\ output_file # NoFile

\* Errored is entered from each of the four working stages
ErroredFromValidating == trace = <<"Validating", "Errored">>
ErroredFromDownloading == trace = <<"Validating", "Downloading", "Errored">>
ErroredFromTranscribing == trace = <<"Validating", "Downloading", "Transcribing", "Errored">>
ErroredFromWriting == trace = <<"Validating", "Downloading", "Transcribing", "Writing", "Errored">>
RunDone == trace = StageOrder

\* ceil(d / l)
CeilDiv(d, l) == (d + l - 1) \div l

\* C6: _segment_audio returns the input path alone when D <= L; otherwise
\* ceil(D/L) chunk paths in order, whose slices start at 0, are contiguous,
\* have length L except the last, which is truncated to end at D, and whose
\* durations sum to D.
C6_Segmentation ==
    ret.fn = "_segment_audio" =>
        LET d == arg.total_length_ms
            l == arg.segment_length_ms
            paths == ret.segment_paths
            chunks == ret.chunks
            n == Len(paths)
        IN  IF d <= l
            THEN /\ \E video_id \in VideoIds : paths = <<OutputFile(video_id)>>
                 /\ chunks = <<[start |-> 0, end |-> d]>>
            ELSE /\ n = CeilDiv(d, l)
                 /\ Len(chunks) = n
                 /\ chunks[1].start = 0
                 /\ chunks[n].end = d
                 /\ \A k \in 1..(n - 1) :
                        /\ chunks[k].end = chunks[k + 1].start
                        /\ chunks[k].end - chunks[k].start = l
                 /\ chunks[n].end - chunks[n].start > 0
                 /\ chunks[n].end - chunks[n].start <= l
                 /\ SumDurations(chunks, n) = d
                 /\ \A k \in 1..n :
                        LET parts == Split(paths[k], "_")
                        IN  /\ Len(parts) = 3
                            /\ parts[2] = IntToStr(chunks[k].start)
                            /\ Split(parts[3], ".")[1] = IntToStr(chunks[k].end)

C6_Witness ==
    /\ ret.fn = "_segment_audio"
    /\ arg.total_length_ms = 7
    /\ arg.segment_length_ms = 3
    /\ Len(ret.segment_paths) = 3
    /\ ret.chunks[3] = [start |-> 6, end |-> 7]

\* the texts joined with a single space
RECURSIVE JoinTexts(_, _)
JoinTexts(res, n) ==
    IF n = 0 THEN <<>>
    ELSE IF n = 1 THEN res[1].text
    ELSE JoinTexts(res, n - 1) \o <<" ">> \o res[n].text

IsTrimmed(s) == Len(s) = 0 \/ (s[1] \notin Whitespace /\ s[Len(s)] \notin Whitespace)

\* removing leading and trailing whitespace of s gives t
TrimOf(s, t) ==
    /\ IsTrimmed(t)
    /\ \E a \in 0..Len(s) :
           /\ a + Len(t) <= Len(s)
           /\ t = SubSeq(s, a + 1, a + Len(t))
           /\ \A k \in 1..a : s[k] \in Whitespace
           /\ \A k \in (a + Len(t) + 1)..Len(s) : s[k] \in Whitespace

\* C7: the text transcribe returns, with or without timestamps, is the chunk
\* texts joined in chunk order with single spaces, trimmed of leading and
\* trailing whitespace.
C7_TextJoin ==
    result # NoResult =>
        /\ Len(results) = Len(segment_paths)
        /\ TrimOf(JoinTexts(results, Len(results)), result.text)

C7_Witness ==
    /\ result.type = "dict"
    /\ Len(results) = 3
    /\ results[1].text = <<" ", "a">>
    /\ results[2].text = <<>>
    /\ results[3].text = <<"b", " ", "c", "\n">>
    /\ result.text = <<"a", " ", " ", "b", " ", "c">>

\* C8: once the loop is over and the clean-up has run, a segmented run has
\* removed every chunk file and the scratch directory, a single-chunk run has
\* removed nothing, and the input file is never among the removed files.
C8_CleanupExact ==
    cleaned # "no" =>
        /\ audio_path \notin removed
        /\ IF Len(segment_paths) > 1
           THEN /\ removed = {segment_paths[k] : k \in 1..Len(segment_paths)}
                /\ \A k \in 1..Len(segment_paths) : segment_paths[k] \notin files
                /\ (pc = "save_output" => audio_path \in files)
                /\ Dirname(segment_paths[1]) \notin dirs
           ELSE /\ removed = {}
                /\ (pc = "save_output" => audio_path \in files)

InRange(f, lo, hi) == FracLeq(lo, f) /\ FracLeq(f, hi)

Allowed(c) == c \in AlnumChars \cup {" ", "-", "_"}

\* path is output_dir/<safe>.txt, where safe is title with each character that
\* is not alphanumeric, space, hyphen or underscore replaced by one underscore
SanitizedPath(title, path) ==
    LET prefix == Len(output_dir) + 1
        safe == SubSeq(path, prefix + 1, Len(path) - 4)
    IN  /\ Len(path) = prefix + Len(title) + 4
        /\ SubSeq(path, 1, prefix) = output_dir \o <<"/">>
        /\ SubSeq(path, Len(path) - 3, Len(path)) = <<".", "t", "x", "t">>
        /\ Len(safe) = Len(title)
        /\ \A k \in 1..Len(title) :
               safe[k] = IF Allowed(title[k]) THEN title[k] ELSE "_"

\* C10: the output path is output_dir/<safe>.txt where safe has the title's
\* length and differs from the title only in that each character that is not
\* alphanumeric, space, hyphen or underscore is an underscore; "My: Video? #1"
\* gives "My_ Video_ _1.txt".
C10_SafeTitle ==
    /\ ret.fn = "safe_title" =>
           /\ SanitizedPath(arg.video_title, ret.output_path)
           /\ arg.video_title = ExampleTitle =>
                  ret.output_path = output_dir \o
                      <<"/", "M", "y", "_", " ", "V", "i", "d", "e", "o", "_", " ",
                        "_", "1", ".", "t", "x", "t">>
    /\ output_file # NoFile => SanitizedPath(video_title, output_file.path)

C10_Witness ==
    /\ ret.fn = "safe_title"
    /\ arg.video_title = <<":", "-">>
    /\ ret.output_path = output_dir \o <<"/", "_", "-", ".", "t", "x", "t">>

\* n in at least two decimal digits
TwoDigits(n) ==
    IF n < 100 THEN <<DigitChars[(n \div 10) + 1], DigitChars[(n % 10) + 1]>>
    ELSE IntToStr(n)

\* HH:MM:SS of a time of ms milliseconds, from its whole seconds
Clock(ms) ==
    LET s == ms \div 1000
        hh == s \div 3600
        mm == (s - hh * 3600) \div 60
        ss == s - hh * 3600 - mm * 60
    IN  TwoDigits(hh) \o <<":">> \o TwoDigits(mm) \o <<":">> \o TwoDigits(ss)

TimestampLine(seg) ==
    <<"[">> \o Clock(seg.start) \o <<" ", "-", "-", ">", " ">> \o Clock(seg.end)
        \o <<"]", " ">> \o seg.text \o <<"\n">>

\* the lines of segments 1..n, one after the other
RECURSIVE TimestampLines(_, _)
TimestampLines(segs, n) ==
    IF n = 0 THEN <<>> ELSE TimestampLines(segs, n - 1) \o TimestampLine(segs[n])

\* C11: format_with_timestamps returns, for the segments in order, one line
\* '[HH:MM:SS --> HH:MM:SS] text' each, ended by a newline, and nothing else;
\* HH, MM and SS are the hours, minutes and seconds of the whole seconds of the
\* time, each padded to two digits (3665.7 gives 01:01:05).
C11_TimestampFormat ==
    ret.fn = "format_with_timestamps" =>
        /\ ret.text = TimestampLines(arg.segments, Len(arg.segments))
        /\ Len(Split(ret.text, "\n")) = Len(arg.segments) + 1
        /\ Len(arg.segments) > 0 => ret.text[Len(ret.text)] = "\n"
        /\ Len(arg.segments) = 0 => ret.text = <<>>

C11_Witness ==
    /\ ret.fn = "format_with_timestamps"
    /\ arg.segments = <<[start |-> 3665700, end |-> 3670200,
                         text |-> <<"h", "e", "l", "l", "o">>]>>
    /\ ret.text = <<"[", "0", "1", ":", "0", "1", ":", "0", "5", " ", "-", "-", ">", " ",
                    "0", "1", ":", "0", "1", ":", "1", "0", "]", " ",
                    "h", "e", "l", "l", "o", "\n">>

\* a run has been started and its terminal event has not yet been handled by
\* the window
InFlight == pc \notin {"idle", "returned"} \/ Len(signals) > 0

\* C12: the Transcribe control is enabled exactly when no run is in flight;
\* a worker is started only when none is in flight, and that start disables
\* the control; the control is re-enabled only by the handling of the terminal
\* event of the run that has returned.
C12_ButtonTracksRun ==
    /\ [](transcribe_button <=> ~InFlight)
    /\ [][(runs' # runs) =>
              /\ transcribe_button
              /\ ~InFlight
              /\ InFlight'
              /\ ~transcribe_button']_vars
    /\ [][(~transcribe_button /\ transcribe_button') =>
              /\ pc = "returned"
              /\ Len(events) = 1
              /\ signals = <<events[1].signal>>
              /\ signals' = <<>>
              /\ UNCHANGED <<pc, runs, runVars>>]_vars

\* a second run under way after a first run that failed: the temp directory
\* still holds the first run's files, which only a completed run removes
C12_Witness ==
    /\ runs = 2
    /\ ~transcribe_button
    /\ pc = "get_video_info"
    /\ Len(signals) = 0
    /\ files # {}

\* the transcriber of a segmented run is about to clean up
AtCleanup ==
    /\ pc = "transcribe_loop"
    /\ i = Len(segment_paths)
    /\ Len(segment_paths) > 1

\* C13: when a run's transcriber reaches its clean-up, the scratch directory
\* holds only chunk files of that run, whatever earlier runs left behind, and
\* removing the directory never fails a run.
C13_LeftoversSwept ==
    /\ AtCleanup =>
           \A f \in files :
               Dirname(f) = SegmentsDir(audio_path) =>
                   \E k \in 1..Len(segment_paths) : f = segment_paths[k]
    /\ cleaned # "rmdir raised"

====
